---- MODULE Spec2Model ----
(***************************************************************************)
(* Model of the Todo service of src/main.py: one table `todo` behind five  *)
(* FastAPI handlers, each running in its own SQLModel session.             *)
(*                                                                         *)
(* The storage engine modelled is SQLite, the engine src/test_main.py      *)
(* builds: `id INTEGER PRIMARY KEY` is the rowid, an INSERT without an id  *)
(* takes max(rowid)+1, and a SELECT without ORDER BY scans the rowid       *)
(* b-tree in ascending id order.                                           *)
(*                                                                         *)
(* Spec     : every handler runs atomically (one request at a time).       *)
(* SpecConc : two requests run step by step (session.get, commit, refresh, *)
(*            session close) and interleave at statement granularity.      *)
(***************************************************************************)
EXTENDS Integers, Sequences, FiniteSets, TLC

\* ---------------------------------------------------------------- bounds
MaxId == 2
Ids == 1..MaxId
Titles == {"a", "b"}
Descs == {"x"}
Procs == {1, 2}

\* ------------------------------------------------------- values and JSON
\* Python None in a str | None attribute, SQL NULL in a column
None == "None"
\* Python None in Todo.id (Field(default=None)); real ids are drawn from Ids
NoneId == 0
\* a JSON body either omits a key, or carries null, or carries a value
Absent == "ABSENT"
JsonNull == "NULL"

JsonTitles == {Absent, JsonNull} \cup Titles
JsonDescs == {Absent, JsonNull} \cup Descs

\* request bodies the framework accepts for POST /createTodo: title is a
\* required str; description and id are optional (NoneId: omitted or null)
CreateBodies == [id : {NoneId} \cup Ids, title : Titles, description : JsonDescs]
\* request bodies the framework accepts for PUT /todo/{id}
UpdateBodies == [title : JsonTitles, description : JsonDescs]

\* pydantic: an omitted key takes the field's default (None), a null is None
Optional(j) == IF j \in {Absent, JsonNull} THEN None ELSE j

\* class Todo, built from a create body
Todo(json) ==
    [id |-> json.id, title |-> json.title, description |-> Optional(json.description)]

\* class TodoUpdate, built from an update body
TodoUpdate(json) ==
    [title |-> Optional(json.title), description |-> Optional(json.description)]

\* what a handler holds when session.get returned None
NoTodo == [id |-> NoneId, title |-> None, description |-> None]

\* --------------------------------------------------------------- storage
Max(S) == CHOOSE m \in S : \A n \in S : n <= m

RowIds(t) == {r.id : r \in t}

\* SQLite rowid allocation for an INSERT that carries no id
NextRowid(t) == IF t = {} THEN 1 ELSE Max(RowIds(t)) + 1

\* variant: the id column carries no uniqueness constraint
PrimaryKeyOK_Unconstrained(t, id) == TRUE

\* PRIMARY KEY constraint of column id
PrimaryKeyOK(t, id) == id \notin RowIds(t)

\* NOT NULL constraint of column title (title: str)
TitleNotNull(title) == title # None

\* variant: the lookup ignores the key and yields the first row it meets
session_get_AnyRow(t, id) ==
    IF \E r \in t : r.id = id THEN CHOOSE r \in t : TRUE
    ELSE [id |-> NoneId, title |-> None, description |-> None]

\* session.get(Todo, id): SELECT ... WHERE id = ?
Exists(t, id) == \E r \in t : r.id = id

session_get(t, id) == IF Exists(t, id) THEN CHOOSE r \in t : r.id = id ELSE NoTodo

\* session.add(todo); session.commit() of a new object: INSERT
Insert(t, todo) ==
    LET id == IF todo.id = NoneId THEN NextRowid(t) ELSE todo.id
    IN  IF PrimaryKeyOK(t, id) /\ TitleNotNull(todo.title)
        THEN [ok |-> TRUE, id |-> id,
              table |-> t \cup {[id |-> id, title |-> todo.title,
                                 description |-> todo.description]}]
        ELSE [ok |-> FALSE, id |-> id, table |-> t]

\* variant: the UPDATE carries no WHERE clause and rewrites every row
FlushUpdate_NoWhere(t, loaded, obj) ==
    IF obj = loaded THEN [ok |-> TRUE, table |-> t]
    ELSE IF ~Exists(t, loaded.id) \/ ~TitleNotNull(obj.title)
    THEN [ok |-> FALSE, table |-> t]
    ELSE [ok |-> TRUE,
          table |-> {[id |-> r.id,
                      title |-> IF obj.title # loaded.title
                                THEN obj.title ELSE r.title,
                      description |-> IF obj.description # loaded.description
                                      THEN obj.description ELSE r.description]
                     : r \in t}]

\* session.add(todo); session.commit() of a loaded object: the unit of work
\* emits UPDATE todo SET <changed columns> WHERE id = ?, and no statement at
\* all when no attribute differs from the loaded value; an UPDATE matching
\* no row raises StaleDataError, one setting title to NULL IntegrityError
FlushUpdate(t, loaded, obj) ==
    IF obj = loaded THEN [ok |-> TRUE, table |-> t]
    ELSE IF ~Exists(t, loaded.id) \/ ~TitleNotNull(obj.title)
    THEN [ok |-> FALSE, table |-> t]
    ELSE [ok |-> TRUE,
          table |-> {IF r.id = loaded.id
                     THEN [id |-> r.id,
                           title |-> IF obj.title # loaded.title
                                     THEN obj.title ELSE r.title,
                           description |-> IF obj.description # loaded.description
                                           THEN obj.description ELSE r.description]
                     ELSE r : r \in t}]

\* variant: the DELETE carries no WHERE clause
FlushDelete_NoWhere(t, obj) == {}

\* session.delete(todo); session.commit(): DELETE FROM todo WHERE id = ?
\* (a DELETE matching no row only warns)
FlushDelete(t, obj) == {r \in t : r.id # obj.id}

\* select(Todo) without ORDER BY: rowid scan, ascending id
RECURSIVE Scan(_)
Scan(t) ==
    IF t = {} THEN <<>>
    ELSE LET first == CHOOSE r \in t : \A s \in t : r.id <= s.id
         IN  <<first>> \o Scan(t \ {first})

\* ------------------------------------------------------------- responses
Ok(body) == [status |-> 200, kind |-> "ok", body |-> body]
\* raise HTTPException(status_code=404, detail="Todo not found")
NotFound == [status |-> 404, kind |-> "HTTPException",
             body |-> [detail |-> "Todo not found"]]
\* an exception no handler catches (IntegrityError, StaleDataError, ...)
ServerError == [status |-> 500, kind |-> "unhandled",
                body |-> [detail |-> "Internal Server Error"]]
Deleted == [message |-> "Todo deleted successfully"]
NoResp == [status |-> 0, kind |-> "none", body |-> [detail |-> ""]]

\* get_session: `with Session(engine) as session: yield session`; the
\* Session is entered before the handler runs and left when the request
\* is over, whether the handler returned or raised
SessionEnter(open, p) == open \cup {p}

\* variant: the Session is closed only after a handler that returned
SessionExit_OnReturnOnly(open, p, out) ==
    IF out.status = 200 THEN open \ {p} ELSE open

SessionExit(open, p, out) == open \ {p}

\* ------------------------------------------- handlers, run start to end
\* each yields the table after the request and the response

\* session.refresh(todo) and the return: SELECT the row again
RefreshAndReturn(t, id) ==
    IF Exists(t, id) THEN Ok(session_get(t, id)) ELSE ServerError

create_todo(t, json) ==
    LET ins == Insert(t, Todo(json))
    IN  IF ins.ok
        THEN [table |-> ins.table, resp |-> RefreshAndReturn(ins.table, ins.id)]
        ELSE [table |-> t, resp |-> ServerError]

all_todo(t) == [table |-> t, resp |-> Ok(Scan(t))]

todo_by_id(t, id) ==
    IF ~Exists(t, id) THEN [table |-> t, resp |-> NotFound]
    ELSE [table |-> t, resp |-> Ok(session_get(t, id))]

\* variant: both attributes are assigned whatever the TodoUpdate holds
ApplyUpdate_AssignsAll(todo, u) ==
    [id |-> todo.id, title |-> u.title, description |-> u.description]

\* variant: the description branch (lines 65-66) is missing
ApplyUpdate_TitleOnly(todo, u) ==
    [id |-> todo.id,
     title |-> IF u.title # None THEN u.title ELSE todo.title,
     description |-> todo.description]

\* lines 63-66: only attributes the TodoUpdate holds as not None are assigned
ApplyUpdate(todo, u) ==
    [id |-> todo.id,
     title |-> IF u.title # None THEN u.title ELSE todo.title,
     description |-> IF u.description # None THEN u.description ELSE todo.description]

update_todo(t, id, json) ==
    IF ~Exists(t, id) THEN [table |-> t, resp |-> NotFound]
    ELSE LET loaded == session_get(t, id)
             f == FlushUpdate(t, loaded, ApplyUpdate(loaded, TodoUpdate(json)))
         IN  IF f.ok
             THEN [table |-> f.table, resp |-> RefreshAndReturn(f.table, id)]
             ELSE [table |-> t, resp |-> ServerError]

\* variant: the not-found check (lines 76-77) is missing
delete_todo_Unchecked(t, id) ==
    [table |-> FlushDelete(t, session_get(t, id)), resp |-> Ok(Deleted)]

delete_todo(t, id) ==
    IF ~Exists(t, id) THEN [table |-> t, resp |-> NotFound]
    ELSE [table |-> FlushDelete(t, session_get(t, id)), resp |-> Ok(Deleted)]

\* ----------------------------------------------------------------- state
VARIABLES
    table,      \* the rows of table todo
    created,    \* Spec: ids of the stored rows, in the order of their creation
    op,         \* Spec: the handler that ran last
    req,        \* Spec: its path id and body
    resp,       \* Spec: its response
    prev,       \* Spec: the table before it ran
    pc,         \* SpecConc: where each request stands
    rq,         \* SpecConc: each request (handler, path id, parsed body)
    loaded,     \* SpecConc: the row session.get gave each request
    rsp,        \* SpecConc: each request's response
    sessions,   \* SpecConc: requests whose Session is open
    opened,     \* SpecConc: Sessions each request has opened so far
    table0      \* SpecConc: the table when the two requests were issued

seqVars == <<created, op, req, resp, prev>>
concVars == <<pc, rq, loaded, rsp, sessions, opened, table0>>
vars == <<table, created, op, req, resp, prev, pc, rq, loaded, rsp, sessions,
          opened, table0>>

NoReq == [id |-> NoneId, body |-> [title |-> Absent, description |-> Absent]]
NoRq == [op |-> "none", id |-> NoneId, body |-> NoTodo]

Remove(s, id) == SelectSeq(s, LAMBDA x : x # id)

Init ==
    /\ table = {}
    /\ created = <<>>
    /\ op = "none"
    /\ req = NoReq
    /\ resp = NoResp
    /\ prev = {}
    /\ pc = [p \in Procs |-> "idle"]
    /\ rq = [p \in Procs |-> NoRq]
    /\ loaded = [p \in Procs |-> NoTodo]
    /\ rsp = [p \in Procs |-> NoResp]
    /\ sessions = {}
    /\ opened = [p \in Procs |-> 0]
    /\ table0 = {}

\* --------------------------------------- Spec: one request after another
Ran(o, id, body, out) ==
    /\ op' = o
    /\ req' = [id |-> id, body |-> body]
    /\ resp' = out.resp
    /\ prev' = table
    /\ table' = out.table
    /\ UNCHANGED concVars

CreateTodo ==
    \E json \in CreateBodies :
        LET out == create_todo(table, json)
        IN  /\ json.id = NoneId => NextRowid(table) <= MaxId
            /\ Ran("create", json.id, json, out)
            /\ created' = IF out.resp.status = 200
                          THEN Append(created, out.resp.body.id) ELSE created

AllTodo ==
    /\ Ran("all", NoneId, NoReq.body, all_todo(table))
    /\ UNCHANGED created

TodoById ==
    \E id \in Ids :
        /\ Ran("get", id, NoReq.body, todo_by_id(table, id))
        /\ UNCHANGED created

UpdateTodo ==
    \E id \in Ids, json \in UpdateBodies :
        /\ Ran("update", id, json, update_todo(table, id, json))
        /\ UNCHANGED created

DeleteTodo ==
    \E id \in Ids :
        LET out == delete_todo(table, id)
        IN  /\ Ran("delete", id, NoReq.body, out)
            /\ created' = IF out.resp.status = 200 THEN Remove(created, id) ELSE created

Next == CreateTodo \/ AllTodo \/ TodoById \/ UpdateTodo \/ DeleteTodo

Spec == Init /\ [][Next]_vars

\* --------------------------- SpecConc: two requests, statement by statement
\* bodies the two concurrent clients send
ConcCreateBodies == [id : {NoneId} \cup Ids, title : {"a"}, description : {Absent}]
ConcUpdateBodies == [title : {Absent, "b"}, description : {Absent, "x"}]

Requests ==
    [op : {"create"}, id : {NoneId}, body : ConcCreateBodies]
    \cup [op : {"all"}, id : {NoneId}, body : {NoReq.body}]
    \cup [op : {"get", "delete"}, id : Ids, body : {NoReq.body}]
    \cup [op : {"update"}, id : Ids, body : ConcUpdateBodies]

\* the clients send one request each
StartRound ==
    /\ \A p \in Procs : pc[p] = "idle"
    /\ rq' \in [Procs -> Requests]
    /\ pc' = [p \in Procs |-> "ready"]
    /\ table0' = table
    /\ UNCHANGED <<table, loaded, rsp, sessions, opened>>
    /\ UNCHANGED seqVars

\* Depends(get_session): the request's Session is opened
GetSession(p) ==
    /\ pc[p] = "ready"
    /\ sessions' = SessionEnter(sessions, p)
    /\ opened' = [opened EXCEPT ![p] = @ + 1]
    /\ pc' = [pc EXCEPT ![p] = "handler"]
    /\ UNCHANGED <<table, rq, loaded, rsp, table0>>
    /\ UNCHANGED seqVars

\* create_todo, lines 33-34: INSERT and COMMIT
CommitInsert(p) ==
    /\ pc[p] = "handler"
    /\ rq[p].op = "create"
    /\ LET ins == Insert(table, Todo(rq[p].body))
       IN  /\ ins.id <= MaxId
           /\ table' = ins.table
           /\ IF ins.ok
              THEN /\ loaded' = [loaded EXCEPT ![p] = session_get(ins.table, ins.id)]
                   /\ pc' = [pc EXCEPT ![p] = "refresh"]
                   /\ rsp' = rsp
              ELSE /\ rsp' = [rsp EXCEPT ![p] = ServerError]
                   /\ pc' = [pc EXCEPT ![p] = "exit"]
                   /\ loaded' = loaded
    /\ UNCHANGED <<rq, sessions, opened, table0>>
    /\ UNCHANGED seqVars

\* all_todo, lines 41-42
SelectAll(p) ==
    /\ pc[p] = "handler"
    /\ rq[p].op = "all"
    /\ rsp' = [rsp EXCEPT ![p] = all_todo(table).resp]
    /\ pc' = [pc EXCEPT ![p] = "exit"]
    /\ UNCHANGED <<table, rq, loaded, sessions, opened, table0>>
    /\ UNCHANGED seqVars

\* lines 47-50, 60-62, 75-77: session.get and the not-found check
SessionGet(p) ==
    /\ pc[p] = "handler"
    /\ rq[p].op \in {"get", "update", "delete"}
    /\ IF ~Exists(table, rq[p].id)
       THEN /\ rsp' = [rsp EXCEPT ![p] = NotFound]
            /\ pc' = [pc EXCEPT ![p] = "exit"]
            /\ loaded' = loaded
       ELSE /\ loaded' = [loaded EXCEPT ![p] = session_get(table, rq[p].id)]
            /\ IF rq[p].op = "get"
               THEN /\ rsp' = [rsp EXCEPT ![p] = todo_by_id(table, rq[p].id).resp]
                    /\ pc' = [pc EXCEPT ![p] = "exit"]
               ELSE /\ rsp' = rsp
                    /\ pc' = [pc EXCEPT ![p] = "commit"]
    /\ UNCHANGED <<table, rq, sessions, opened, table0>>
    /\ UNCHANGED seqVars

\* update_todo, lines 63-68: assign, UPDATE and COMMIT
CommitUpdate(p) ==
    /\ pc[p] = "commit"
    /\ rq[p].op = "update"
    /\ LET f == FlushUpdate(table, loaded[p],
                            ApplyUpdate(loaded[p], TodoUpdate(rq[p].body)))
       IN  /\ table' = f.table
           /\ IF f.ok
              THEN /\ pc' = [pc EXCEPT ![p] = "refresh"]
                   /\ rsp' = rsp
              ELSE /\ rsp' = [rsp EXCEPT ![p] = ServerError]
                   /\ pc' = [pc EXCEPT ![p] = "exit"]
    /\ UNCHANGED <<rq, loaded, sessions, opened, table0>>
    /\ UNCHANGED seqVars

\* lines 35-36 and 69-70: session.refresh(todo) and the return
Refresh(p) ==
    /\ pc[p] = "refresh"
    /\ rsp' = [rsp EXCEPT ![p] = RefreshAndReturn(table, loaded[p].id)]
    /\ pc' = [pc EXCEPT ![p] = "exit"]
    /\ UNCHANGED <<table, rq, loaded, sessions, opened, table0>>
    /\ UNCHANGED seqVars

\* delete_todo, lines 78-80: DELETE, COMMIT and the return
CommitDelete(p) ==
    /\ pc[p] = "commit"
    /\ rq[p].op = "delete"
    /\ table' = FlushDelete(table, loaded[p])
    /\ rsp' = [rsp EXCEPT ![p] = Ok(Deleted)]
    /\ pc' = [pc EXCEPT ![p] = "exit"]
    /\ UNCHANGED <<rq, loaded, sessions, opened, table0>>
    /\ UNCHANGED seqVars

\* the request is over: get_session resumes and its `with` block is left
CloseSession(p) ==
    /\ pc[p] = "exit"
    /\ sessions' = SessionExit(sessions, p, rsp[p])
    /\ pc' = [pc EXCEPT ![p] = "done"]
    /\ UNCHANGED <<table, rq, loaded, rsp, opened, table0>>
    /\ UNCHANGED seqVars

\* both responses were delivered; the clients forget the round
EndRound ==
    /\ \A p \in Procs : pc[p] = "done"
    /\ pc' = [p \in Procs |-> "idle"]
    /\ rq' = [p \in Procs |-> NoRq]
    /\ loaded' = [p \in Procs |-> NoTodo]
    /\ rsp' = [p \in Procs |-> NoResp]
    /\ opened' = [p \in Procs |-> 0]
    /\ table0' = {}
    /\ UNCHANGED <<table, sessions>>
    /\ UNCHANGED seqVars

NextConc ==
    \/ StartRound
    \/ EndRound
    \/ \E p \in Procs :
        \/ GetSession(p)
        \/ CommitInsert(p)
        \/ SelectAll(p)
        \/ SessionGet(p)
        \/ CommitUpdate(p)
        \/ Refresh(p)
        \/ CommitDelete(p)
        \/ CloseSession(p)

SpecConc == Init /\ [][NextConc]_vars

\* ------------------------------------------------- properties under Spec
Others(t, id) == {r \in t : r.id # id}
ListedIds(t) == [i \in 1..Len(Scan(t)) |-> Scan(t)[i].id]

\* C1: every create request, whatever id its body carries, returns 200,
\* stores exactly one new row and returns it with the request's title and
\* description and an id no stored Todo had
C1_CreateAlwaysSucceeds ==
    op = "create" =>
        /\ resp.status = 200
        /\ resp.body.title = req.body.title
        /\ resp.body.description = Optional(req.body.description)
        /\ resp.body.id # NoneId
        /\ resp.body.id \notin RowIds(prev)
        /\ table = prev \cup {resp.body}
        /\ Cardinality(table) = Cardinality(prev) + 1

\* C2: an update of an existing Todo returns 200 with the row as stored,
\* keeps each omitted field, keeps the id and leaves every other row alone
C2_OmittedFieldsKept ==
    (op = "update" /\ Exists(prev, req.id)) =>
        LET old == session_get(prev, req.id)
            new == session_get(table, req.id)
        IN  /\ resp.status = 200
            /\ Exists(table, req.id)
            /\ req.body.title = Absent => new.title = old.title
            /\ req.body.description = Absent => new.description = old.description
            /\ new.id = old.id
            /\ Others(table, req.id) = Others(prev, req.id)
            /\ resp.body = new

C2_Witness ==
    /\ op = "update"
    /\ resp.status = 200
    /\ req.body.title = Absent
    /\ req.body.description \in Descs
    /\ session_get(prev, req.id).description = None
    /\ Cardinality(table) = 2

\* C3 as stated: every field present in the update body, an explicit null
\* included, overwrites the stored field with the supplied value
C3_PresentOverwritesEvenNull ==
    (op = "update" /\ Exists(prev, req.id)) =>
        LET new == session_get(table, req.id)
        IN  /\ req.body.title # Absent => new.title = Optional(req.body.title)
            /\ req.body.description # Absent =>
                   new.description = Optional(req.body.description)

\* C3 amended: a field present with a non-null value overwrites the stored
\* field; a field present as an explicit null is left at its stored value
C3_PresentValueOverwrites ==
    (op = "update" /\ Exists(prev, req.id)) =>
        LET old == session_get(prev, req.id)
            new == session_get(table, req.id)
        IN  /\ req.body.title \in Titles => new.title = req.body.title
            /\ req.body.description \in Descs => new.description = req.body.description
            /\ req.body.title = JsonNull => new.title = old.title
            /\ req.body.description = JsonNull => new.description = old.description

C3_Witness ==
    /\ op = "update"
    /\ resp.status = 200
    /\ req.body.description = JsonNull
    /\ session_get(prev, req.id).description \in Descs
    /\ req.body.title \in Titles
    /\ req.body.title # session_get(prev, req.id).title

\* C4: get, update and delete of an id without a row answer 404 "Todo not
\* found" and change no row; no handler raises any other HTTPException
C4_NotFoundOnly ==
    /\ (op \in {"get", "update", "delete"} /\ ~Exists(prev, req.id)) =>
           /\ resp.status = 404
           /\ resp.body = [detail |-> "Todo not found"]
           /\ table = prev
    /\ resp.kind = "HTTPException" =>
           /\ resp.status = 404
           /\ resp.body = [detail |-> "Todo not found"]
           /\ op \in {"get", "update", "delete"}
           /\ ~Exists(prev, req.id)

C4_Witness ==
    /\ op = "delete"
    /\ resp.status = 404
    /\ Cardinality(table) = 1

\* C5: a delete of an existing Todo answers 200 with the fixed message;
\* after it get(id) answers 404, the listing has no row of that id, and
\* every other row is stored unchanged
C5_DeleteRemoves ==
    (op = "delete" /\ Exists(prev, req.id)) =>
        /\ resp = Ok(Deleted)
        /\ todo_by_id(table, req.id).resp = NotFound
        /\ \A i \in 1..Len(all_todo(table).resp.body) :
               all_todo(table).resp.body[i].id # req.id
        /\ table = Others(prev, req.id)

C5_Witness ==
    /\ op = "delete"
    /\ resp.status = 200
    /\ Cardinality(prev) = 2
    /\ Cardinality(table) = 1

\* C6: the listing holds every stored Todo once, in the order of creation,
\* whatever ids the rows carry
C6_ListInCreationOrder ==
    ListedIds(table) = created

\* C7: get(id) of a stored Todo answers 200 with exactly the stored row; a
\* get right after a create or an update answers what that request answered
C7_GetRoundTrip ==
    /\ \A r \in table : todo_by_id(table, r.id).resp = Ok(r)
    /\ (op \in {"create", "update"} /\ resp.status = 200) =>
           todo_by_id(table, resp.body.id).resp = resp

C7_Witness ==
    /\ op = "update"
    /\ resp.status = 200
    /\ resp.body # session_get(prev, req.id)
    /\ Cardinality(table) = 2

\* C8: every stored Todo has a non-null id and a non-null title, and no two
\* stored Todos share an id
C8_RowInvariant ==
    /\ \A r \in table : r.id # NoneId /\ r.title # None
    /\ \A r, s \in table : r.id = s.id => r = s

C8_Witness ==
    /\ Cardinality(table) = 2
    /\ op = "create"
    /\ resp.status = 500
    /\ req.id \in RowIds(table)

\* --------------------------------------------- properties under SpecConc
InFlight == {"handler", "commit", "refresh", "exit"}
RowOps == {"get", "update", "delete"}

\* C9: a request opens one Session when its handling starts, holds it while
\* it is handled, and has none open once it has completed, on the 200 paths
\* as on the 404 paths
C9_SessionScoped ==
    \A p \in Procs :
        /\ pc[p] \in InFlight => (p \in sessions /\ opened[p] = 1)
        /\ pc[p] \in {"idle", "ready"} => (p \notin sessions /\ opened[p] = 0)
        /\ pc[p] = "done" => (p \notin sessions /\ opened[p] = 1)

C9_Witness ==
    /\ pc[1] = "done"
    /\ rq[1].op = "update"
    /\ rsp[1].status = 404
    /\ pc[2] = "done"
    /\ rq[2].op = "delete"
    /\ rsp[2].status = 200
    /\ sessions = {}

\* a request run start to end on table t
Run(r, t) ==
    CASE r.op = "get" -> todo_by_id(t, r.id)
      [] r.op = "update" -> update_todo(t, r.id, r.body)
      [] r.op = "delete" -> delete_todo(t, r.id)
      [] r.op = "all" -> all_todo(t)
      [] OTHER -> create_todo(t, r.body)

\* C10: two get/update/delete requests addressed to different ids, however
\* their steps interleave, answer and leave the table as they do when run
\* one after the other, in either order
C10_DifferentRowsIndependent ==
    (/\ pc[1] = "done"
     /\ pc[2] = "done"
     /\ rq[1].op \in RowOps
     /\ rq[2].op \in RowOps
     /\ rq[1].id # rq[2].id) =>
        LET a == Run(rq[1], table0)
            ab == Run(rq[2], a.table)
            b == Run(rq[2], table0)
            ba == Run(rq[1], b.table)
        IN  /\ table = ab.table
            /\ table = ba.table
            /\ rsp[1] = a.resp
            /\ rsp[1] = ba.resp
            /\ rsp[2] = b.resp
            /\ rsp[2] = ab.resp

C10_Witness ==
    /\ pc[1] = "done"
    /\ pc[2] = "done"
    /\ rq[1].op = "update"
    /\ rq[2].op = "delete"
    /\ rq[1].id # rq[2].id
    /\ rsp[1].status = 200
    /\ rsp[2].status = 200
    /\ rsp[1].body # session_get(table0, rq[1].id)
    /\ Cardinality(table0) = 2
    /\ Cardinality(table) = 1

====
